---- MODULE Spec2Model ----
(***************************************************************************)
(* A model of scrapy_do/webservice.py: the JSON resource nodes of the web  *)
(* service, the envelope renderer JsonResource.render / render_json, the   *)
(* two asynchronous handlers (PushProject, CancelJob) and the auth gate    *)
(* of get_web_app.                                                         *)
(*                                                                         *)
(* A request is a record that carries its arguments and its mutable        *)
(* response (status code, headers, written body, completion count).  The   *)
(* reactor is single threaded: one call of render runs to its return (or   *)
(* to the yield on a pending Deferred) without interleaving, so each       *)
(* render call is one action, and the firing of a pending Deferred is      *)
(* another.                                                                *)
(***************************************************************************)
EXTENDS Integers, Sequences, FiniteSets, TLC

VARIABLES
    auth,       \* config.get_bool('web', 'auth', False), fixed at start-up
    reqs        \* the requests received so far, by slot

vars == <<auth, reqs>>

\* How many requests the model follows at once.
MaxReq == 2

ReqIds == 1..MaxReq

(***************************************************************************)
(* Values                                                                  *)
(***************************************************************************)

\* A byte string: `utf8' says whether the bytes are well-formed UTF-8 and
\* `s' is the text they spell.
B(s) == [utf8 |-> TRUE, s |-> s]
Undecodable == [utf8 |-> FALSE, s |-> "\\xff"]
Archive == [utf8 |-> FALSE, s |-> "PK\\x03\\x04"]

\* An exception with the text str(e) gives.
Exc(type, msg) == [type |-> type, msg |-> msg]
NoExc == Exc("", "")

\* A JSON-bound Python value: a tag and its content as a sequence of strings.
\* "obj" is a value json.dumps has no encoder for.
Str(s) == [t |-> "str", v |-> <<s>>]
Num(s) == [t |-> "num", v |-> <<s>>]
List(ss) == [t |-> "list", v |-> ss]
Jobs(ids) == [t |-> "jobs", v |-> ids]
Obj == [t |-> "obj", v |-> <<>>]
None == [t |-> "none", v |-> <<>>]

\* A dict keeps insertion order: a sequence of items.
Item(k, v) == [k |-> k, v |-> v]
Keys(d) == {d[i].k : i \in 1..Len(d)}
HasKey(d, k) == k \in Keys(d)
Get(d, k) == d[CHOOSE i \in 1..Len(d) : d[i].k = k].v

RECURSIVE Update(_, _)
\* d with the items of `over' put in, in order: an existing key keeps its
\* place and takes the new value, a new key goes to the end.
Update(d, over) ==
    IF over = <<>> THEN d
    ELSE LET it == Head(over)
             d1 == IF HasKey(d, it.k)
                   THEN [i \in 1..Len(d) |-> IF d[i].k = it.k THEN it ELSE d[i]]
                   ELSE Append(d, it)
         IN  Update(d1, Tail(over))

\* {**base, **data}
Merge(base, data) == Update(base, data)

\* str(KeyError(key)) for a bytes key is the repr of the key.
BytesRepr(name) == "b'" \o name \o "'"
StrRepr(s) == "'" \o s \o "'"

\* request.args[key][0] on a missing key
KeyErrorBytes(name) == Exc("KeyError", BytesRepr(name))

\* bytes.decode('utf-8')
DecodeOk(b) == b.utf8
Decode(b) == b.s
UnicodeDecodeError ==
    Exc("UnicodeDecodeError",
        "'utf-8' codec can't decode byte 0xff in position 0: invalid start byte")

(***************************************************************************)
(* json.dumps                                                              *)
(***************************************************************************)

RECURSIVE JoinStr(_, _)
JoinStr(ss, sep) ==
    IF ss = <<>> THEN ""
    ELSE IF Len(ss) = 1 THEN ss[1]
    ELSE ss[1] \o sep \o JoinStr(Tail(ss), sep)

Quote(s) == "\"" \o s \o "\""

DumpValue(val) ==
    CASE val.t = "str" -> Quote(val.v[1])
      [] val.t = "num" -> val.v[1]
      [] val.t = "none" -> "null"
      [] val.t = "list" ->
            "[" \o JoinStr([i \in 1..Len(val.v) |-> Quote(val.v[i])], ", ") \o "]"
      [] val.t = "jobs" ->
            "[" \o JoinStr([i \in 1..Len(val.v) |->
                     "{\"identifier\": " \o Quote(val.v[i]) \o "}"], ", ") \o "]"
      [] OTHER -> ""

Serializable(data) == \A i \in 1..Len(data) : data[i].v.t # "obj"

json_dumps(data) ==
    "{" \o JoinStr([i \in 1..Len(data) |->
              Quote(data[i].k) \o ": " \o DumpValue(data[i].v)], ", ") \o "}"

JsonTypeError == Exc("TypeError", "Object of type set is not JSON serializable")

(***************************************************************************)
(* The request and its response                                            *)
(***************************************************************************)

\* A slot no request has arrived in.  A fresh request has response code 200,
\* no headers, nothing written, and is connected.  Beside the response the
\* record keeps what happened to the request: the mappings render_json
\* encoded (json), the Controller calls made for it (calls), the calls made
\* on the request in order (events), what render returned (ret), whether
\* the synchronous handler returned or raised (handler) and the mapping it
\* returned (returned), and the exception nothing caught (escaped).
NoRequest ==
    [node |-> "none", args |-> <<>>, gate |-> "", pc |-> "idle",
     code |-> 200, ctype |-> "", clen |-> -1, body |-> <<>>, finished |-> 0,
     json |-> <<>>, calls |-> <<>>, events |-> <<>>, ret |-> "",
     handler |-> "", returned |-> <<>>, escaped |-> NoExc, connected |-> TRUE]

NewRequest(node, args, gate) ==
    [NoRequest EXCEPT !.node = node, !.args = args, !.gate = gate]

\* request.setResponseCode(code)
setResponseCode(rq, code) ==
    [rq EXCEPT !.code = code, !.events = Append(@, "setResponseCode")]

\* request.setHeader('Content-Type', v), request.setHeader('Content-Length', n)
setContentType(rq, v) ==
    [rq EXCEPT !.ctype = v, !.events = Append(@, "setHeader")]
setContentLength(rq, n) ==
    [rq EXCEPT !.clen = n, !.events = Append(@, "setHeader")]

\* request.write(data): the call is logged; the bytes reach the transport
\* only while it is connected.
write(rq, data) ==
    [rq EXCEPT !.body = IF rq.connected THEN Append(@, data) ELSE @,
               !.events = Append(@, "write")]

\* request.finish(): the call is logged; on a lost connection it raises
\* instead of completing the response.
FinishRaises(rq) == ~rq.connected
FinishError ==
    Exc("RuntimeError",
        "Request.finish called on a request after its connection was lost")
finish(rq) ==
    [rq EXCEPT !.finished = IF rq.connected THEN @ + 1 ELSE @,
               !.events = Append(@, "finish")]

(***************************************************************************)
(* JsonResource                                                            *)
(***************************************************************************)

\* render_json taking the length before the newline is appended.
render_json_before_newline(rq, data) ==
    IF ~Serializable(data)
    THEN [rq |-> rq, body |-> "", exc |-> JsonTypeError]
    ELSE LET json_data == json_dumps(data)
             r1 == [rq EXCEPT !.json = Append(@, data)]
             r2 == setContentType(r1, "application/json")
             r3 == setContentLength(r2, Len(json_data))
         IN  [rq |-> r3, body |-> json_data \o "\n", exc |-> NoExc]

\* JsonResource.render_json: the outcome is the request with its headers set
\* (and the mapping that was encoded noted in `json') and the encoded body,
\* or the exception json.dumps raised, before any header was touched.
render_json(rq, data) ==
    IF ~Serializable(data)
    THEN [rq |-> rq, body |-> "", exc |-> JsonTypeError]
    ELSE LET json_data == json_dumps(data) \o "\n"
             r1 == [rq EXCEPT !.json = Append(@, data)]
             r2 == setContentType(r1, "application/json")
             r3 == setContentLength(r2, Len(json_data))
         IN  [rq |-> r3, body |-> json_data, exc |-> NoExc]

\* What a render_<METHOD> handler did: the mapping it returned or the
\* exception it raised, and the Controller calls it made on the way.
Return(data, calls) == [kind |-> "return", data |-> data, exc |-> NoExc, calls |-> calls]
Raise(exc, calls) == [kind |-> "raise", data |-> <<>>, exc |-> exc, calls |-> calls]

Call(m, a) == [m |-> m, a |-> a]

ErrorEnvelope(msg) == <<Item("status", Str("error")), Item("msg", Str(msg))>>

\* The except branch of JsonResource.render.
render_except(rq, e) ==
    LET r1 == setResponseCode(rq, 400)
        out == render_json(r1, ErrorEnvelope(e.msg))
    IN  [rq |-> out.rq, body |-> out.body, exc |-> out.exc]

\* JsonResource.render around a synchronous handler whose outcome is h: the
\* request as render leaves it and the bytes render returns.
JsonResource_render(rq, h) ==
    LET r0 == [rq EXCEPT !.calls = @ \o h.calls, !.handler = h.kind,
                         !.returned = h.data]
    IN  IF h.kind = "raise" THEN render_except(r0, h.exc)
        ELSE LET data == Merge(<<Item("status", Str("ok"))>>, h.data)
                 out == render_json(r0, data)
             IN  IF out.exc # NoExc
                 THEN render_except(r0, out.exc)
                 ELSE out

\* twisted.web.server.Request.render for a body other than NOT_DONE_YET:
\* write the body and finish the request.  An exception that left render
\* is recorded as escaped.
Deliver(out) ==
    IF out.exc # NoExc
    THEN [out.rq EXCEPT !.escaped = out.exc, !.pc = "done"]
    ELSE [finish(write(out.rq, out.body)) EXCEPT !.ret = "bytes", !.pc = "done"]

(***************************************************************************)
(* The Controller and the helpers imported from the rest of the package    *)
(***************************************************************************)

\* What the Controller does with the one call a request makes on it: raise
\* `raise' (NoExc: return normally), and return its usual value (`fine') or
\* its other one.
ControllerErrors == {Exc("ValueError", "No such job"), Exc("Exception", "")}
Controller ==
    [raise : {NoExc}, fine : BOOLEAN] \cup [raise : ControllerErrors, fine : {TRUE}]

\* The value method m returns: a list of names, a job identifier, a list of
\* Jobs or one Job (a Job is written as its identifier), or (not `fine') a
\* value json.dumps cannot encode / other Jobs.
ReturnOf(m, fine) ==
    CASE m = "push_project" -> IF fine THEN List(<<"spiderA", "spiderB">>) ELSE Obj
      [] m = "get_projects" -> IF fine THEN List(<<"p1">>) ELSE Obj
      [] m = "get_spiders" -> IF fine THEN List(<<"spiderA">>) ELSE Obj
      [] m = "schedule_job" -> IF fine THEN Str("abc123") ELSE Obj
      [] m = "get_jobs" -> IF fine THEN List(<<"j1", "j2">>) ELSE List(<<>>)
      [] m = "get_job" -> IF fine THEN Str("j1") ELSE Str("j2")
      [] OTHER -> None

\* The members of schedule.Status.
JobStatusNames == {"PENDING", "RUNNING", "SUCCESSFUL"}

\* JobStatus[name] of an unregistered name
UnknownStatus(name) == Exc("KeyError", StrRepr(name))

MissingArgument(name) == Exc("MissingArgument", "Missing argument: " \o name)

\* utils.arg_require_all: the exception for the first required name that is
\* absent, NoExc when all are present.
arg_require_all(args, names) ==
    LET missing == {i \in 1..Len(names) : ~HasKey(args, names[i])}
    IN  IF missing = {} THEN NoExc
        ELSE MissingArgument(names[CHOOSE i \in missing : \A j \in missing : i <= j])

\* utils.arg_require_any: the exception when none of the names is present.
arg_require_any(args, names) ==
    IF \E i \in 1..Len(names) : HasKey(args, names[i]) THEN NoExc
    ELSE MissingArgument(JoinStr(names, ", "))

(***************************************************************************)
(* The synchronous handlers                                                *)
(***************************************************************************)

Status_render_GET(args, ctrl) ==
    Return(<<Item("memory-usage", Num("52428800")), Item("cpu-usage", Num("0.0"))>>,
           <<>>)

ListProjects_render_GET(args, ctrl) ==
    LET call == Call("get_projects", <<>>)
    IN  IF ctrl.raise # NoExc THEN Raise(ctrl.raise, <<call>>)
        ELSE Return(<<Item("projects", ReturnOf("get_projects", ctrl.fine))>>, <<call>>)

ListSpiders_render_GET(args, ctrl) ==
    LET chk == arg_require_all(args, <<"project">>)
    IN  IF chk # NoExc THEN Raise(chk, <<>>)
        ELSE IF ~DecodeOk(Get(args, "project")) THEN Raise(UnicodeDecodeError, <<>>)
        ELSE LET project == Decode(Get(args, "project"))
                 call == Call("get_spiders", <<project>>)
             IN  IF ctrl.raise # NoExc THEN Raise(ctrl.raise, <<call>>)
                 ELSE Return(<<Item("project", Str(project)),
                               Item("spiders", ReturnOf("get_spiders", ctrl.fine))>>,
                             <<call>>)

\* render_POST passing spider and project to schedule_job in each other's
\* place.
ScheduleJob_render_POST_swapped(args, ctrl) ==
    LET chk == arg_require_all(args, <<"project", "spider", "when">>)
    IN  IF chk # NoExc THEN Raise(chk, <<>>)
        ELSE IF \E n \in {"project", "spider", "when"} : ~DecodeOk(Get(args, n))
        THEN Raise(UnicodeDecodeError, <<>>)
        ELSE LET project == Decode(Get(args, "project"))
                 spider == Decode(Get(args, "spider"))
                 when == Decode(Get(args, "when"))
                 call == Call("schedule_job", <<spider, project, when>>)
             IN  IF ctrl.raise # NoExc THEN Raise(ctrl.raise, <<call>>)
                 ELSE Return(<<Item("identifier", ReturnOf("schedule_job", ctrl.fine))>>,
                             <<call>>)

ScheduleJob_render_POST(args, ctrl) ==
    LET chk == arg_require_all(args, <<"project", "spider", "when">>)
    IN  IF chk # NoExc THEN Raise(chk, <<>>)
        ELSE IF \E n \in {"project", "spider", "when"} : ~DecodeOk(Get(args, n))
        THEN Raise(UnicodeDecodeError, <<>>)
        ELSE LET project == Decode(Get(args, "project"))
                 spider == Decode(Get(args, "spider"))
                 when == Decode(Get(args, "when"))
                 call == Call("schedule_job", <<project, spider, when>>)
             IN  IF ctrl.raise # NoExc THEN Raise(ctrl.raise, <<call>>)
                 ELSE Return(<<Item("identifier", ReturnOf("schedule_job", ctrl.fine))>>,
                             <<call>>)

\* [job.to_dict() for job in jobs]
to_dicts(jobs) == Jobs(jobs)

\* render_GET with the id branch asking get_jobs, as the status branch does.
ListJobs_render_GET_get_jobs(args, ctrl) ==
    LET chk == arg_require_any(args, <<"status", "id">>)
        key == IF HasKey(args, "status") THEN "status" ELSE "id"
    IN  IF chk # NoExc THEN Raise(chk, <<>>)
        ELSE IF ~DecodeOk(Get(args, key)) THEN Raise(UnicodeDecodeError, <<>>)
        ELSE LET name == Decode(Get(args, key))
                 call == Call("get_jobs", <<name>>)
             IN  IF key = "status" /\ name \notin JobStatusNames
                 THEN Raise(UnknownStatus(name), <<>>)
                 ELSE IF ctrl.raise # NoExc THEN Raise(ctrl.raise, <<call>>)
                 ELSE LET jobs == ReturnOf("get_jobs", ctrl.fine).v
                      IN  Return(<<Item("jobs", to_dicts(jobs))>>, <<call>>)

\* render_GET handing the decoded name to get_jobs without the JobStatus
\* lookup.
ListJobs_render_GET_no_lookup(args, ctrl) ==
    LET chk == arg_require_any(args, <<"status", "id">>)
        key == IF HasKey(args, "status") THEN "status" ELSE "id"
        m == IF key = "status" THEN "get_jobs" ELSE "get_job"
    IN  IF chk # NoExc THEN Raise(chk, <<>>)
        ELSE IF ~DecodeOk(Get(args, key)) THEN Raise(UnicodeDecodeError, <<>>)
        ELSE LET call == Call(m, <<Decode(Get(args, key))>>)
             IN  IF ctrl.raise # NoExc THEN Raise(ctrl.raise, <<call>>)
                 ELSE LET jobs == IF key = "status"
                                  THEN ReturnOf("get_jobs", ctrl.fine).v
                                  ELSE <<ReturnOf("get_job", ctrl.fine).v[1]>>
                      IN  Return(<<Item("jobs", to_dicts(jobs))>>, <<call>>)

\* render_GET testing for id first, status in the else branch.
ListJobs_render_GET_id_first(args, ctrl) ==
    LET chk == arg_require_any(args, <<"status", "id">>)
    IN  IF chk # NoExc THEN Raise(chk, <<>>)
        ELSE IF ~HasKey(args, "id")
        THEN IF ~DecodeOk(Get(args, "status")) THEN Raise(UnicodeDecodeError, <<>>)
             ELSE LET name == Decode(Get(args, "status"))
                      call == Call("get_jobs", <<name>>)
                  IN  IF name \notin JobStatusNames THEN Raise(UnknownStatus(name), <<>>)
                      ELSE IF ctrl.raise # NoExc THEN Raise(ctrl.raise, <<call>>)
                      ELSE LET jobs == ReturnOf("get_jobs", ctrl.fine).v
                           IN  Return(<<Item("jobs", to_dicts(jobs))>>, <<call>>)
        ELSE IF ~DecodeOk(Get(args, "id")) THEN Raise(UnicodeDecodeError, <<>>)
             ELSE LET identifier == Decode(Get(args, "id"))
                      call == Call("get_job", <<identifier>>)
                  IN  IF ctrl.raise # NoExc THEN Raise(ctrl.raise, <<call>>)
                      ELSE LET jobs == <<ReturnOf("get_job", ctrl.fine).v[1]>>
                           IN  Return(<<Item("jobs", to_dicts(jobs))>>, <<call>>)

ListJobs_render_GET(args, ctrl) ==
    LET chk == arg_require_any(args, <<"status", "id">>)
    IN  IF chk # NoExc THEN Raise(chk, <<>>)
        ELSE IF HasKey(args, "status")
        THEN IF ~DecodeOk(Get(args, "status")) THEN Raise(UnicodeDecodeError, <<>>)
             ELSE LET name == Decode(Get(args, "status"))
                      call == Call("get_jobs", <<name>>)
                  IN  IF name \notin JobStatusNames THEN Raise(UnknownStatus(name), <<>>)
                      ELSE IF ctrl.raise # NoExc THEN Raise(ctrl.raise, <<call>>)
                      ELSE LET jobs == ReturnOf("get_jobs", ctrl.fine).v
                           IN  Return(<<Item("jobs", to_dicts(jobs))>>, <<call>>)
        ELSE IF ~DecodeOk(Get(args, "id")) THEN Raise(UnicodeDecodeError, <<>>)
             ELSE LET identifier == Decode(Get(args, "id"))
                      call == Call("get_job", <<identifier>>)
                  IN  IF ctrl.raise # NoExc THEN Raise(ctrl.raise, <<call>>)
                      ELSE LET jobs == <<ReturnOf("get_job", ctrl.fine).v[1]>>
                           IN  Return(<<Item("jobs", to_dicts(jobs))>>, <<call>>)

\* A module mounted from the 'web-modules' option: a JsonResource whose
\* handler returns a mapping of its own choice, or raises.
ExtensionData ==
    {<<Item("info", Str("x"))>>, <<Item("status", Str("busy"))>>,
     <<Item("status", Str("error"))>>}
Extension_render_GET(args, data, ctrl) ==
    IF ctrl.raise # NoExc THEN Raise(ctrl.raise, <<>>) ELSE Return(data, <<>>)

(***************************************************************************)
(* The asynchronous handlers                                               *)
(***************************************************************************)

\* do_async ends: by returning (done) or by an exception nothing catches,
\* which inlineCallbacks stores in the Deferred that render_POST drops.
Done(rq) == [rq EXCEPT !.pc = "done"]
Escape(rq, e) == [rq EXCEPT !.pc = "done", !.escaped = e]

\* request.write(self.render_json(request, result)); request.finish()
write_and_finish(rq, result) ==
    LET out == render_json(rq, result)
    IN  IF out.exc # NoExc THEN Escape(rq, out.exc)
        ELSE LET r1 == write(out.rq, out.body)
             IN  IF FinishRaises(r1) THEN Escape(finish(r1), FinishError)
                 ELSE Done(finish(r1))

\* The except KeyError branch without its return: do_async goes on to the
\* write and finish at its end.
missing_argument_no_return(rq, e) ==
    LET result == ErrorEnvelope("Missing argument: " \o e.msg)
        r1 == write_and_finish(setResponseCode(rq, 400), result)
    IN  write_and_finish(r1, result)

\* The except KeyError branch of do_async.
missing_argument(rq, e) ==
    LET result == ErrorEnvelope("Missing argument: " \o e.msg)
    IN  write_and_finish(setResponseCode(rq, 400), result)

\* The second try of do_async once the Controller's outcome is known:
\* `value' is the success envelope's fields.
after_yield(rq, ctrl, fields) ==
    IF ctrl.raise # NoExc
    THEN write_and_finish(setResponseCode(rq, 400), ErrorEnvelope(ctrl.raise.msg))
    ELSE write_and_finish(rq, <<Item("status", Str("ok"))>> \o fields)

\* The extraction of PushProject.do_async: NoExc, or the exception the
\* first failing line raises.
PushProject_extract(args) ==
    IF ~HasKey(args, "name") THEN KeyErrorBytes("name")
    ELSE IF ~DecodeOk(Get(args, "name")) THEN UnicodeDecodeError
    ELSE IF ~HasKey(args, "archive") THEN KeyErrorBytes("archive")
    ELSE NoExc

PushProject_call(args) ==
    Call("push_project", <<Decode(Get(args, "name")), Get(args, "archive").s>>)

PushProject_fields(ctrl) == <<Item("spiders", ReturnOf("push_project", ctrl.fine))>>

CancelJob_extract(args) ==
    IF ~HasKey(args, "id") THEN KeyErrorBytes("id")
    ELSE IF ~DecodeOk(Get(args, "id")) THEN UnicodeDecodeError
    ELSE NoExc

CancelJob_call(args) == Call("cancel_job", <<Decode(Get(args, "id"))>>)

CancelJob_fields(ctrl) == <<>>

Extract(node, args) ==
    IF node = "push-project" THEN PushProject_extract(args) ELSE CancelJob_extract(args)
CallOf(node, args) ==
    IF node = "push-project" THEN PushProject_call(args) ELSE CancelJob_call(args)
FieldsOf(node, ctrl) ==
    IF node = "push-project" THEN PushProject_fields(ctrl) ELSE CancelJob_fields(ctrl)

\* render_POST setting the Content-Type before do_async reaches its yield.
render_POST_early_header(rq, ctrl, pending) ==
    LET e == Extract(rq.node, rq.args)
        r1 == [rq EXCEPT !.ret = "NOT_DONE_YET"]
    IN  IF e.type = "KeyError" THEN missing_argument(r1, e)
        ELSE IF e # NoExc THEN Escape(r1, e)
        ELSE LET r2 == [r1 EXCEPT !.calls = Append(@, CallOf(rq.node, rq.args))]
                 r3 == setContentType(r2, "application/json")
             IN  IF pending THEN [r3 EXCEPT !.pc = "waiting"]
                 ELSE after_yield(r3, ctrl, FieldsOf(rq.node, ctrl))

\* render_POST of PushProject / CancelJob: do_async runs to its end or to
\* the yield on a Deferred that has not fired (`pending'), and render_POST
\* returns NOT_DONE_YET.
render_POST(rq, ctrl, pending) ==
    LET e == Extract(rq.node, rq.args)
        r1 == [rq EXCEPT !.ret = "NOT_DONE_YET"]
    IN  IF e.type = "KeyError" THEN missing_argument(r1, e)
        ELSE IF e # NoExc THEN Escape(r1, e)
        ELSE LET r2 == [r1 EXCEPT !.calls = Append(@, CallOf(rq.node, rq.args))]
             IN  IF pending THEN [r2 EXCEPT !.pc = "waiting"]
                 ELSE after_yield(r2, ctrl, FieldsOf(rq.node, ctrl))

\* The Deferred of a waiting do_async fires with the Controller's outcome.
resume(rq, ctrl) == after_yield(rq, ctrl, FieldsOf(rq.node, ctrl))

(***************************************************************************)
(* The resource tree, the auth gate and the requests that arrive           *)
(***************************************************************************)

\* The children WebApp mounts: Home at b'' and the configured web modules.
SyncNodes == {"status", "list-projects", "list-spiders", "schedule-job",
              "list-jobs", "extension"}
AsyncNodes == {"push-project", "cancel-job"}
JsonNodes == SyncNodes \cup AsyncNodes
Nodes == {"home"} \cup JsonNodes

\* The arguments a node reads, and the values the model sends for each.
ArgNamesOf(node) ==
    CASE node = "list-spiders" -> <<"project">>
      [] node = "schedule-job" -> <<"project", "spider", "when">>
      [] node = "list-jobs" -> <<"status", "id">>
      [] node = "push-project" -> <<"name", "archive">>
      [] node = "cancel-job" -> <<"id">>
      [] OTHER -> <<>>

ArgValues(name) ==
    CASE name = "archive" -> {Archive}
      [] name = "status" -> {B("PENDING"), B("UNKNOWN")}
      [] name = "when" -> {B("now")}
      [] name = "spider" -> {B("s1")}
      [] name = "id" -> {B("j1"), Undecodable}
      [] OTHER -> {B("p1"), Undecodable}

RECURSIVE ArgDicts(_)
\* Every request.args over the names: each name absent or with one value.
ArgDicts(names) ==
    IF names = <<>> THEN {<<>>}
    ELSE LET rest == ArgDicts(Tail(names))
         IN  rest \cup {<<Item(Head(names), v)>> \o d :
                            v \in ArgValues(Head(names)), d \in rest}

\* Resource.render: the handler of the node for the request.
Handle(node, args, data, ctrl) ==
    CASE node = "status" -> Status_render_GET(args, ctrl)
      [] node = "list-projects" -> ListProjects_render_GET(args, ctrl)
      [] node = "list-spiders" -> ListSpiders_render_GET(args, ctrl)
      [] node = "schedule-job" -> ScheduleJob_render_POST(args, ctrl)
      [] node = "list-jobs" -> ListJobs_render_GET(args, ctrl)
      [] OTHER -> Extension_render_GET(args, data, ctrl)

\* Home.render_GET
Home_render_GET(rq) ==
    [rq |-> rq, body |-> "<html>Hello, world!</html>", exc |-> NoExc]

\* The Controller the service hands to get_web_app.
TheController == "controller"

\* WebApp.__init__: the tree keeps the Controller and mounts Home and the
\* configured web modules.
WebApp(controller) == [controller |-> controller, children |-> Nodes]

\* PublicHTMLRealm and its requestAvatar: a WebApp over the realm's own
\* Controller.
PublicHTMLRealm(controller) == [controller |-> controller]
requestAvatar(realm) == WebApp(realm.controller)

\* The tree a request that is let in reaches: the avatar of the realm
\* get_web_app built, or the WebApp get_web_app returned.
TreeReached(a) ==
    IF a THEN requestAvatar(PublicHTMLRealm(TheController))
    ELSE WebApp(TheController)
Routes(a) == TreeReached(a).children

\* get_web_app with the auth option ignored.
get_web_app_open(a) == "open"

\* get_web_app: with auth the tree sits behind HTTPAuthSessionWrapper, and
\* a request reaches a WebApp only through requestAvatar; without, the
\* WebApp is the root.
get_web_app(a) == IF a THEN "passed" ELSE "open"

\* The wrapper's answer to a request without valid credentials.
Unauthorized(rq) ==
    LET r1 == setResponseCode(rq, 401)
        r2 == [r1 EXCEPT !.events = Append(@, "setHeader")]
    IN  Deliver([rq |-> r2, body |-> "Unauthorized", exc |-> NoExc])

\* Slots fill in order of arrival.
Free(r) ==
    /\ reqs[r].node = "none"
    /\ \A q \in ReqIds : q < r => reqs[q].node # "none"

(***************************************************************************)
(* Actions                                                                 *)
(***************************************************************************)

Init ==
    /\ auth \in BOOLEAN
    /\ reqs = [r \in ReqIds |-> NoRequest]

\* A request without valid credentials arrives at the gate.
Challenge(r) ==
    /\ auth
    /\ Free(r)
    /\ \E node \in Nodes :
          reqs' = [reqs EXCEPT ![r] = Unauthorized(NewRequest(node, <<>>, "challenged"))]
    /\ UNCHANGED auth

\* GET / : the hello page.
RenderHome(r) ==
    /\ Free(r)
    /\ "home" \in Routes(auth)
    /\ reqs' = [reqs EXCEPT ![r] =
                  Deliver(Home_render_GET(NewRequest("home", <<>>, get_web_app(auth))))]
    /\ UNCHANGED auth

\* A request for a synchronous JSON node: JsonResource.render, then the
\* framework writes the returned body and finishes the request.
RenderSync(r) ==
    /\ Free(r)
    /\ \E node \in SyncNodes \cap Routes(auth) :
       \E args \in ArgDicts(ArgNamesOf(node)), ctrl \in Controller,
          data \in IF node = "extension" THEN ExtensionData ELSE {<<>>} :
          reqs' = [reqs EXCEPT ![r] =
                     Deliver(JsonResource_render(
                                 NewRequest(node, args, get_web_app(auth)),
                                 Handle(node, args, data, ctrl)))]
    /\ UNCHANGED auth

\* A request for push-project or cancel-job: render_POST.
RenderAsync(r) ==
    /\ Free(r)
    /\ \E node \in AsyncNodes \cap Routes(auth) :
       \E args \in ArgDicts(ArgNamesOf(node)), ctrl \in Controller,
          pending \in BOOLEAN :
          reqs' = [reqs EXCEPT ![r] =
                     render_POST(NewRequest(node, args, get_web_app(auth)),
                                 ctrl, pending)]
    /\ UNCHANGED auth

\* Resolve with the request kept on the resource node instead of in
\* do_async's own frame: the node holds the request that arrived last, so
\* the do_async of r ends and the answer goes to that one.
Resolve_request_on_node(r) ==
    /\ reqs[r].pc = "waiting"
    /\ LET q == CHOOSE x \in ReqIds :
                   /\ reqs[x].node = reqs[r].node /\ reqs[x].pc = "waiting"
                   /\ \A y \in ReqIds :
                         (reqs[y].node = reqs[r].node /\ reqs[y].pc = "waiting")
                             => y <= x
       IN  \E ctrl \in Controller :
               reqs' = IF q = r
                       THEN [reqs EXCEPT ![r] = resume(reqs[r], ctrl)]
                       ELSE [reqs EXCEPT ![r] = Done(reqs[r]),
                                         ![q] = resume(reqs[q], ctrl)]
    /\ UNCHANGED auth

\* The Controller's Deferred fires, with a result or with a failure.
Resolve(r) ==
    /\ reqs[r].pc = "waiting"
    /\ \E ctrl \in Controller : reqs' = [reqs EXCEPT ![r] = resume(reqs[r], ctrl)]
    /\ UNCHANGED auth

\* The client goes away while the request is held open.
Disconnect(r) ==
    /\ reqs[r].pc = "waiting"
    /\ reqs[r].connected
    /\ reqs' = [reqs EXCEPT ![r].connected = FALSE]
    /\ UNCHANGED auth

Next ==
    \E r \in ReqIds :
        \/ Challenge(r)
        \/ RenderHome(r)
        \/ RenderSync(r)
        \/ RenderAsync(r)
        \/ Resolve(r)
        \/ Disconnect(r)

Spec == Init /\ [][Next]_vars

(***************************************************************************)
(* Properties                                                              *)
(***************************************************************************)

\* The request in slot r reached a resource node of the tree.
Reached(r) == reqs[r].node # "none" /\ reqs[r].gate # "challenged"
ReachedJson(r) == Reached(r) /\ reqs[r].node \in JsonNodes
ReachedAsync(r) == Reached(r) /\ reqs[r].node \in AsyncNodes
ReachedSync(r) == Reached(r) /\ reqs[r].node \in SyncNodes

\* The mapping whose encoding is the response body.
Envelope(r) == reqs[r].json[Len(reqs[r].json)]
HasEnvelope(r) == reqs[r].json # <<>>
StatusOf(r) == Get(Envelope(r), "status")
Completed(r) == reqs[r].finished >= 1

Count(events, e) == Cardinality({i \in 1..Len(events) : events[i] = e})

\* C1: a push-project or cancel-job request is marked complete (finish) at
\* most once on every path, and exactly once when do_async ran to its end
\* on a connected request; the NOT_DONE_YET returned after a validation
\* failure that already finished the request adds no second completion.
C1_FinishAtMostOnce ==
    \A r \in ReqIds :
        ReachedAsync(r) =>
            /\ reqs[r].finished <= 1
            /\ Count(reqs[r].events, "finish") <= 1
            /\ reqs[r].ret = "NOT_DONE_YET"
            /\ (reqs[r].pc = "done" /\ reqs[r].escaped = NoExc)
                   => reqs[r].finished = 1
            /\ reqs[r].pc = "waiting" => reqs[r].finished = 0

\* One request completed on the missing-argument path and another after its
\* Deferred fired while it was waiting.
C1_Witness ==
    \E r, q \in ReqIds :
        /\ ReachedAsync(r) /\ ReachedAsync(q)
        /\ Extract(reqs[r].node, reqs[r].args).type = "KeyError"
        /\ reqs[r].finished = 1
        /\ reqs[q].calls # <<>>
        /\ reqs[q].finished = 1 /\ reqs[q].pc = "done"

\* C2: no push-project or cancel-job request whose transport is connected
\* is left open once do_async has ended: it has written one envelope and is
\* marked complete.  (pc = "done" is final: no action touches the request
\* afterwards, so a request open then stays open for ever.)
C2_NoRequestLeftOpen ==
    \A r \in ReqIds :
        (ReachedAsync(r) /\ reqs[r].pc = "done" /\ reqs[r].connected) =>
            /\ reqs[r].finished = 1
            /\ Len(reqs[r].body) = 1

\* C3: every completed response of a JSON resource node has as body the
\* encoding of one mapping whose status is "ok" or "error".
C3_StatusOkOrError ==
    \A r \in ReqIds :
        (ReachedJson(r) /\ Completed(r)) =>
            /\ HasEnvelope(r)
            /\ reqs[r].body = <<json_dumps(Envelope(r)) \o "\n">>
            /\ HasKey(Envelope(r), "status")
            /\ StatusOf(r) \in {Str("ok"), Str("error")}

MsgOf(r) == Get(Envelope(r), "msg")

\* C4: every response whose envelope has status "error" has HTTP status
\* code 400 and a non-empty msg string.
C4_ErrorIs400WithMsg ==
    \A r \in ReqIds :
        (ReachedJson(r) /\ Completed(r) /\ HasEnvelope(r)
            /\ HasKey(Envelope(r), "status") /\ StatusOf(r) = Str("error")) =>
            /\ reqs[r].code = 400
            /\ HasKey(Envelope(r), "msg")
            /\ MsgOf(r).t = "str"
            /\ MsgOf(r).v[1] # ""

\* The operations of the catalogue that require arguments, and a request
\* that lacks a required one (for list-jobs: both alternatives).
Catalogue == {"push-project", "list-spiders", "schedule-job", "list-jobs", "cancel-job"}
LacksRequired(node, args) ==
    IF node = "list-jobs" THEN ~HasKey(args, "status") /\ ~HasKey(args, "id")
    ELSE \E i \in 1..Len(ArgNamesOf(node)) : ~HasKey(args, ArgNamesOf(node)[i])

IsErrorResponse(r) ==
    /\ Completed(r)
    /\ reqs[r].code = 400
    /\ HasEnvelope(r)
    /\ StatusOf(r) = Str("error")

\* C5: a request to an operation of the catalogue that lacks a required
\* argument gets an error envelope, and no Controller method is called for
\* it at any point.
C5_MissingArgumentNeverReachesController ==
    \A r \in ReqIds :
        (Reached(r) /\ reqs[r].node \in Catalogue
            /\ LacksRequired(reqs[r].node, reqs[r].args)) =>
            /\ reqs[r].calls = <<>>
            /\ IsErrorResponse(r)

\* C6: a cancel-job POST without id is answered by the time render_POST
\* has returned NOT_DONE_YET, with HTTP 400 and the envelope
\* {"status": "error", "msg": "Missing argument: id"}, and cancel_job is
\* never called.
C6_CancelJobWithoutId ==
    \A r \in ReqIds :
        (Reached(r) /\ reqs[r].node = "cancel-job" /\ ~HasKey(reqs[r].args, "id")) =>
            /\ reqs[r].ret = "NOT_DONE_YET"
            /\ reqs[r].finished = 1
            /\ reqs[r].code = 400
            /\ reqs[r].json = <<ErrorEnvelope("Missing argument: id")>>
            /\ reqs[r].calls = <<>>

\* The outcome of an asynchronous request as a synchronous handler would
\* hand it to JsonResource.render: the missing argument raised by the
\* validator, the Controller's failure raised, or the success fields
\* returned.
SameOutcome(r) ==
    IF Extract(reqs[r].node, reqs[r].args).type = "KeyError"
    THEN Raise(arg_require_all(reqs[r].args, ArgNamesOf(reqs[r].node)), <<>>)
    ELSE IF StatusOf(r) = Str("error")
    THEN Raise(Exc("Exception", MsgOf(r).v[1]), <<>>)
    ELSE Return(Tail(Envelope(r)), <<>>)

\* C7: the asynchronous path gives, for every outcome, the status code and
\* the envelope (fields and message) that JsonResource.render gives for
\* the same outcome.
C7_PathsAgree ==
    \A r \in ReqIds :
        (ReachedAsync(r) /\ Completed(r)) =>
            LET twin == JsonResource_render(
                            NewRequest(reqs[r].node, reqs[r].args, reqs[r].gate),
                            SameOutcome(r)).rq
            IN  /\ twin.code = reqs[r].code
                /\ twin.json = reqs[r].json

\* C8: no exception raised while a JSON resource node handles a (connected)
\* request goes uncaught: each becomes the HTTP 400 error envelope.
C8_NothingEscapes ==
    \A r \in ReqIds :
        (ReachedJson(r) /\ reqs[r].connected) =>
            /\ reqs[r].escaped = NoExc
            /\ reqs[r].pc = "done" => Completed(r)

\* C9: whenever the handler wrapped by JsonResource.render returns a
\* mapping without raising, the envelope's status is "ok" and the HTTP
\* status code is 200, whatever keys the mapping has.  Stated for the
\* mappings json.dumps encodes, where render does leave the code at 200.
C9_SuccessStatusOk ==
    \A r \in ReqIds :
        (ReachedSync(r) /\ reqs[r].handler = "return" /\ reqs[r].code = 200) =>
            /\ Completed(r)
            /\ HasEnvelope(r)
            /\ StatusOf(r) = Str("ok")

OnlyStatus(r) == HasKey(reqs[r].args, "status") /\ ~HasKey(reqs[r].args, "id")
OnlyId(r) == HasKey(reqs[r].args, "id") /\ ~HasKey(reqs[r].args, "status")
Neither(r) == ~HasKey(reqs[r].args, "id") /\ ~HasKey(reqs[r].args, "status")
IsOkResponse(r) ==
    /\ Completed(r)
    /\ reqs[r].code = 200
    /\ HasEnvelope(r)
    /\ StatusOf(r) = Str("ok")

UnregisteredStatus(r) ==
    /\ Reached(r) /\ reqs[r].node = "list-jobs"
    /\ HasKey(reqs[r].args, "status")
    /\ DecodeOk(Get(reqs[r].args, "status"))
    /\ Decode(Get(reqs[r].args, "status")) \notin JobStatusNames

\* C11: a list-jobs request whose status is not a member of the Job Status
\* enumeration gets a completed HTTP 400 error envelope, nothing goes
\* uncaught, and neither get_jobs nor get_job is called for it.
C11_UnknownStatusIsErrorEnvelope ==
    \A r \in ReqIds :
        UnregisteredStatus(r) =>
            /\ IsErrorResponse(r)
            /\ reqs[r].finished = 1
            /\ reqs[r].escaped = NoExc
            /\ MsgOf(r) = Str(StrRepr(Decode(Get(reqs[r].args, "status"))))
            /\ reqs[r].calls = <<>>

\* A request with status=UNKNOWN and no id has been answered.
C11_Witness ==
    \E r \in ReqIds :
        /\ UnregisteredStatus(r) /\ OnlyStatus(r)
        /\ Completed(r) /\ reqs[r].code = 400

\* The request in slot r is a schedule-job POST that carries project,
\* spider and when, each with a value that decodes.
CarriesAllThree(r) ==
    /\ Reached(r) /\ reqs[r].node = "schedule-job"
    /\ \A n \in {"project", "spider", "when"} :
          HasKey(reqs[r].args, n) /\ DecodeOk(Get(reqs[r].args, n))

\* C12: a schedule-job POST carrying project, spider and when calls
\* schedule_job exactly once, with exactly the three decoded values in that
\* order (when as it came), and makes no other Controller call; if the
\* Controller returns identifier i, the response is HTTP 200 with the
\* envelope {"status": "ok", "identifier": i}.
C12_ScheduleJob ==
    \A r \in ReqIds :
        CarriesAllThree(r) =>
            /\ reqs[r].calls =
                  <<Call("schedule_job", <<Decode(Get(reqs[r].args, "project")),
                                           Decode(Get(reqs[r].args, "spider")),
                                           Decode(Get(reqs[r].args, "when"))>>)>>
            /\ (reqs[r].handler = "return"
                    /\ Get(reqs[r].returned, "identifier").t = "str") =>
                  /\ reqs[r].finished = 1
                  /\ reqs[r].code = 200
                  /\ reqs[r].json =
                        <<<<Item("status", Str("ok")),
                            Item("identifier", Get(reqs[r].returned, "identifier"))>>>>
                  /\ reqs[r].body = <<json_dumps(Envelope(r)) \o "\n">>

\* The scenario of the spec: project=p1, spider=s1, when=now, and the
\* Controller returned "abc123".
C12_Witness ==
    \E r \in ReqIds :
        /\ CarriesAllThree(r)
        /\ reqs[r].calls = <<Call("schedule_job", <<"p1", "s1", "now">>)>>
        /\ reqs[r].code = 200
        /\ reqs[r].body = <<"{\"status\": \"ok\", \"identifier\": \"abc123\"}\n">>

\* The body render_json produces for mapping d: the JSON text, which has no
\* newline in it (json.dumps escapes them), and one newline after it.
BodyOf(d) == json_dumps(d) \o "\n"

\* C13: wherever render_json produced a body, on the synchronous and on the
\* asynchronous path, the body returned or written is the JSON text of the
\* mapping followed by one newline, Content-Length is the length of exactly
\* that body (the text is ASCII, so bytes and characters agree), and
\* Content-Type is application/json.
C13_BodyAndHeaders ==
    \A r \in ReqIds :
        (Reached(r) /\ reqs[r].json # <<>>) =>
            /\ reqs[r].ctype = "application/json"
            /\ reqs[r].clen = Len(BodyOf(Envelope(r)))
            /\ reqs[r].clen = Len(json_dumps(Envelope(r))) + 1
            /\ \A i \in 1..Len(reqs[r].body) :
                  reqs[r].body[i] = BodyOf(reqs[r].json[i])
            /\ reqs[r].connected => Len(reqs[r].body) = Len(reqs[r].json)

\* Both paths have produced a body: a synchronous list-projects answer of
\* 37 bytes and an asynchronous cancel-job answer of 17.
C13_Witness ==
    \E r, q \in ReqIds :
        /\ ReachedSync(r) /\ reqs[r].node = "list-projects"
        /\ reqs[r].body = <<"{\"status\": \"ok\", \"projects\": [\"p1\"]}\n">>
        /\ reqs[r].clen = 37
        /\ ReachedAsync(q) /\ reqs[q].ret = "NOT_DONE_YET"
        /\ reqs[q].body = <<"{\"status\": \"ok\"}\n">>
        /\ reqs[q].clen = 17
        /\ reqs[q].ctype = "application/json"

\* C14: get_web_app has two modes.  With auth on, a request is either
\* challenged or let in after authentication, and a challenged request, on
\* whatever path, gets the 401 challenge and reaches neither a JSON node nor
\* the Controller; with auth off no request meets a gate.  The tree reached
\* after authentication has the routes and the Controller of the tree
\* served without authentication.
C14_TwoModes ==
    /\ \A r \in ReqIds :
          reqs[r].node # "none" =>
              /\ auth => reqs[r].gate \in {"challenged", "passed"}
              /\ ~auth => reqs[r].gate = "open"
              /\ reqs[r].gate = "challenged" =>
                    /\ reqs[r].code = 401
                    /\ reqs[r].body = <<"Unauthorized">>
                    /\ reqs[r].finished = 1
                    /\ reqs[r].json = <<>>
                    /\ reqs[r].calls = <<>>
                    /\ reqs[r].handler = ""
                    /\ reqs[r].ret = "bytes"
              /\ Reached(r) => reqs[r].node \in WebApp(TheController).children
    /\ TreeReached(TRUE).children = TreeReached(FALSE).children
    /\ TreeReached(TRUE).controller = TreeReached(FALSE).controller
    /\ TreeReached(auth) = WebApp(TheController)

\* With auth on, one request for a JSON node was challenged and another,
\* authenticated, got its envelope from the Controller's answer.
C14_Witness ==
    /\ auth
    /\ \E r, q \in ReqIds :
          /\ reqs[r].gate = "challenged" /\ reqs[r].node \in JsonNodes
          /\ reqs[r].code = 401
          /\ reqs[q].gate = "passed" /\ reqs[q].node \in JsonNodes
          /\ reqs[q].calls # <<>> /\ reqs[q].code = 200 /\ HasEnvelope(q)

\* The response of request rq is as the framework created it.
Untouched(rq) ==
    /\ rq.events = <<>>
    /\ rq.body = <<>>
    /\ rq.finished = 0
    /\ rq.code = 200
    /\ rq.ctype = ""
    /\ rq.clen = -1
    /\ rq.json = <<>>

\* C15: render_POST of push-project and cancel-job returns NOT_DONE_YET on
\* every path, the validation failure included; with valid arguments the
\* Controller has been called once, and for as long as its operation is
\* outstanding nothing is written, no status code or header is set and the
\* response is not complete.
C15_SentinelAndSilence ==
    \A r \in ReqIds :
        /\ ReachedAsync(r) => reqs[r].ret = "NOT_DONE_YET"
        /\ reqs[r].pc = "waiting" =>
              /\ ReachedAsync(r)
              /\ Extract(reqs[r].node, reqs[r].args) = NoExc
              /\ reqs[r].calls = <<CallOf(reqs[r].node, reqs[r].args)>>
              /\ Untouched(reqs[r])
              /\ reqs[r].escaped = NoExc

\* One request is held open on its Controller operation while another
\* failed validation; both got the sentinel.
C15_Witness ==
    \E r, q \in ReqIds :
        /\ reqs[r].pc = "waiting" /\ reqs[r].ret = "NOT_DONE_YET"
        /\ reqs[r].node = "push-project"
        /\ ReachedAsync(q) /\ reqs[q].pc = "done" /\ reqs[q].calls = <<>>
        /\ reqs[q].code = 400 /\ reqs[q].ret = "NOT_DONE_YET"

\* The calls made on a response in the order the claim requires: the
\* status code first when it is an error, the two headers, one write, then
\* finish, and nothing after it.
InOrder(rq) ==
    IF rq.code = 200
    THEN rq.events = <<"setHeader", "setHeader", "write", "finish">>
    ELSE rq.events = <<"setResponseCode", "setHeader", "setHeader", "write", "finish">>

\* C16: on every path of the asynchronous handlers the status code (when an
\* error) and both headers are set before the body is written, exactly one
\* write occurs, the write precedes finish and nothing follows finish.
C16_AsStated ==
    \A r \in ReqIds :
        (ReachedAsync(r) /\ reqs[r].pc = "done") => InOrder(reqs[r])

\* The order holds on every path of do_async that gets as far as a write.
C16_OrderWherePresent ==
    \A r \in ReqIds :
        (ReachedAsync(r) /\ Count(reqs[r].events, "write") > 0) =>
            InOrder(reqs[r])

\* C17: once the transport of a held-open push-project or cancel-job
\* request is lost, the resolution of the Controller's operation makes no
\* write and no finish call on that request.
C17_AsStated ==
    \A r \in ReqIds :
        (ReachedAsync(r) /\ ~reqs[r].connected) =>
            /\ Count(reqs[r].events, "write") = 0
            /\ Count(reqs[r].events, "finish") = 0

\* Every record an asynchronous request with rq's node, arguments and gate
\* can have when it is the only request there is: as render_POST left it,
\* held open with the connection lost, or resumed with some outcome of its
\* own Controller operation.
OwnOutcomes(rq) ==
    LET new == NewRequest(rq.node, rq.args, rq.gate)
        first == {render_POST(new, c, p) : c \in Controller, p \in BOOLEAN}
        held == {x \in first : x.pc = "waiting"}
        lost == {[x EXCEPT !.connected = FALSE] : x \in held}
    IN  first \cup lost \cup {resume(x, c) : x \in held \cup lost, c \in Controller}

\* A step touches one request only and leaves the tree's configuration
\* alone; a held-open request that completes does so with an outcome of
\* its own Controller operation.
OneRequestPerStep ==
    \A r \in ReqIds :
        reqs'[r] # reqs[r] =>
            /\ \A q \in ReqIds \ {r} : reqs'[q] = reqs[q]
            /\ auth' = auth
            /\ TreeReached(auth') = TreeReached(auth)
            /\ (reqs[r].pc = "waiting" /\ reqs'[r].pc = "done") =>
                  \E c \in Controller : reqs'[r] = resume(reqs[r], c)

\* C18: with several asynchronous requests outstanding and resolving in any
\* order, each request's response (envelope, status code, writes, finish)
\* is one it would have had alone, built from its own Controller outcome;
\* completing one request changes no other request, and no step changes
\* the resource tree.
C18_Isolation ==
    /\ [](\A r \in ReqIds : ReachedAsync(r) => reqs[r] \in OwnOutcomes(reqs[r]))
    /\ [][OneRequestPerStep]_vars

\* Two requests to the same node: the later one has completed with the
\* error envelope of its own failed operation while the earlier one is
\* still held open, untouched.
C18_Witness ==
    \E r, q \in ReqIds :
        /\ r < q
        /\ ReachedAsync(r) /\ reqs[q].node = reqs[r].node /\ Reached(q)
        /\ reqs[r].pc = "waiting" /\ Untouched(reqs[r])
        /\ reqs[q].pc = "done" /\ reqs[q].calls # <<>>
        /\ reqs[q].code = 400 /\ reqs[q].finished = 1
        /\ Envelope(q) = ErrorEnvelope("No such job")

\* The request in slot r is a list-jobs request with both status and id.
BothStatusAndId(r) ==
    /\ Reached(r) /\ reqs[r].node = "list-jobs"
    /\ HasKey(reqs[r].args, "status") /\ HasKey(reqs[r].args, "id")

\* The records of the request of slot r sent with its status argument
\* only, one for each outcome of the Controller, put beside its own args.
WithoutId(r) ==
    LET st == <<Item("status", Get(reqs[r].args, "status"))>>
    IN  {[Deliver(JsonResource_render(
                      NewRequest("list-jobs", st, reqs[r].gate),
                      ListJobs_render_GET(st, c)))
             EXCEPT !.args = reqs[r].args] : c \in Controller}

\* C19: a list-jobs request with both status and id takes the status
\* branch: get_job is never called, the only call there can be is
\* get_jobs(status), made once when the status is registered, and the
\* response is the one the request gets without its id; with an
\* unregistered status it is the error envelope, whatever the id.
C19_StatusTakesPrecedence ==
    \A r \in ReqIds :
        BothStatusAndId(r) =>
            /\ \A i \in 1..Len(reqs[r].calls) : reqs[r].calls[i].m # "get_job"
            /\ reqs[r] \in WithoutId(r)
            /\ (DecodeOk(Get(reqs[r].args, "status"))
                    /\ Decode(Get(reqs[r].args, "status")) \in JobStatusNames) =>
                  reqs[r].calls =
                      <<Call("get_jobs", <<Decode(Get(reqs[r].args, "status"))>>)>>
            /\ UnregisteredStatus(r) =>
                  IsErrorResponse(r) /\ reqs[r].calls = <<>>

\* Both cases at once: status=UNKNOWN with id=j1 answered with the error
\* envelope and no call, and status=PENDING with id=j1 answered from
\* get_jobs("PENDING").
C19_Witness ==
    \E r, q \in ReqIds :
        /\ BothStatusAndId(r) /\ UnregisteredStatus(r)
        /\ Get(reqs[r].args, "id") = B("j1")
        /\ IsErrorResponse(r) /\ reqs[r].calls = <<>>
        /\ BothStatusAndId(q)
        /\ Get(reqs[q].args, "id") = B("j1")
        /\ reqs[q].calls = <<Call("get_jobs", <<"PENDING">>)>>
        /\ IsOkResponse(q)

====
